---------------------------- MODULE Spec2Model ----------------------------
(***************************************************************************)
(* A model of the Spotify Wrapped pipeline: DataProcessor.create_song_id   *)
(* and DataProcessor.preprocess (src/src/data_processor.py) and the        *)
(* analyses of WrappedAnalyzer (src/src/analyzer.py).                      *)
(*                                                                         *)
(* Text is a sequence of code points (97 = "a", 65 = "A", 32 = " "), so    *)
(* that str.lower(), sorted() and " ".join() are computed as Python does.  *)
(* A cell of a DataFrame that holds no value is NaN (a float in pandas).   *)
(* hashlib.md5 is modelled as collision free: the digest of a text is the  *)
(* text itself under the tag "md5"; digests are ordered as their texts.    *)
(***************************************************************************)
EXTENDS Integers, Sequences, FiniteSets, TLC

VARIABLES
    pc,        \* which part of the program the behaviour exercises and where it is
    row,       \* the record handed to create_song_id
    song_id,   \* what the latest call of create_song_id returned
    first_id,  \* what the first call of create_song_id returned
    last_row,  \* the record of the latest call of create_song_id
    first_row, \* the record of the first call of create_song_id
    df,        \* the caller's raw DataFrame (load_raw_data's result)
    result,    \* what the latest call of preprocess returned or raised
    prev,      \* what the call of preprocess before that returned or raised
    adf,       \* WrappedAnalyzer.df and WrappedAnalyzer.years
    out,       \* the latest analysis called, and what it returned or raised
    playlists, \* the year and the playlist of each entry of the playlists dict
    fetch,     \* the call of get_full_tracklist: its loop and its master list
    list_csv,  \* the file at RAW_DATA_PATH: absent, or the records it holds
    working_csv, \* the file at PROCESSED_DATA_PATH: absent, or the table it holds
    run        \* the latest run of scripts/main.py: its flags and what it did

vars ==
    <<pc, row, song_id, first_id, last_row, first_row, df, result, prev, adf, out,
      playlists, fetch, list_csv, working_csv, run>>

-----------------------------------------------------------------------------
(* Values *)

NaN == [t |-> "nan"]
Str(s) == [t |-> "str", v |-> s]
List(l) == [t |-> "list", v |-> l]
None == [t |-> "None"]
Unset == [t |-> "unset"]

\* Python's str.lower() on one ASCII code point
LowerChar(c) == IF c \in 65..90 THEN c + 32 ELSE c

\* str.lower()
Lower(s) == [i \in DOMAIN s |-> LowerChar(s[i])]

\* the other case of a letter; any other code point has none
SwapCaseChar(c) ==
    IF c \in 65..90 THEN c + 32 ELSE IF c \in 97..122 THEN c - 32 ELSE c

\* Python's str < str: lexicographic by code point, a proper prefix is smaller
RECURSIVE StrLess(_, _)
StrLess(s, u) ==
    IF u = <<>> THEN FALSE
    ELSE IF s = <<>> THEN TRUE
    ELSE IF Head(s) # Head(u) THEN Head(s) < Head(u)
    ELSE StrLess(Tail(s), Tail(u))

\* insertion of one text into a sorted list of texts
RECURSIVE Insert(_, _)
Insert(x, l) ==
    IF l = <<>> THEN <<x>>
    ELSE IF StrLess(x, Head(l)) THEN <<x>> \o l
    ELSE <<Head(l)>> \o Insert(x, Tail(l))

\* a plausible slip: the artist names are joined in the order given
SortedAsGiven(l) == l

\* sorted(list of str)
RECURSIVE Sorted(_)
Sorted(l) == IF l = <<>> THEN <<>> ELSE Insert(Head(l), Sorted(Tail(l)))

\* " ".join(list of str)
RECURSIVE Join(_)
Join(l) ==
    IF l = <<>> THEN <<>>
    ELSE IF Len(l) = 1 THEN Head(l)
    ELSE Head(l) \o <<32>> \o Join(Tail(l))

\* str(x) of a cell: the text itself, or "nan" for an empty cell
PyStr(x) == IF x.t = "str" THEN x.v ELSE <<110, 97, 110>>

\* hashlib.md5(text.encode("utf-8")).hexdigest(), collision free
Md5Hex(text) == [t |-> "md5", v |-> text]

\* DataProcessor.create_song_id: None when iterating row["artists"] raises
\* (the cell is NaN, a float), the digest of "<name> <sorted artists>" otherwise
create_song_id(r) ==
    IF r.artists.t # "list" THEN None
    ELSE LET name == Lower(PyStr(r.name))
             artists == Join(Sorted([i \in DOMAIN r.artists.v |-> Lower(r.artists.v[i])]))
             combined == name \o <<32>> \o artists
         IN Md5Hex(combined)

-----------------------------------------------------------------------------
(* The identity normalizer on its own: one record, presented again and     *)
(* again with its artists in another order and its letters in another case *)

\* "ab", "a" and an empty name cell
IdNames == {Str(<<97, 98>>), Str(<<97>>), NaN}

\* ["x", "y"], ["x y"], ["x"], [] and an empty artists cell
IdArtists ==
    {List(<< <<120>>, <<121>> >>), List(<< <<120, 32, 121>> >>),
     List(<< <<120>> >>), List(<<>>), NaN}

idVars == <<row, song_id, first_id, last_row, first_row>>
ppVars == <<df, result, prev>>
anVars == <<adf, out>>
feVars == <<playlists, fetch>>
maVars == <<list_csv, working_csv, run>>

IdIdle == row = Unset /\ song_id = Unset /\ first_id = Unset
              /\ last_row = Unset /\ first_row = Unset
PpIdle == df = Unset /\ result = Unset /\ prev = Unset
AnIdle == adf = Unset /\ out = Unset
FeIdle == playlists = Unset /\ fetch = Unset
MaIdle == list_csv = Unset /\ working_csv = Unset /\ run = Unset

InitId ==
    /\ pc = "identity"
    /\ row \in [name : IdNames, artists : IdArtists]
    /\ song_id = Unset /\ first_id = Unset
    /\ last_row = Unset /\ first_row = Unset
    /\ PpIdle /\ AnIdle /\ FeIdle /\ MaIdle

\* the call song_id = create_song_id(row)
CreateSongId ==
    /\ pc = "identity"
    /\ song_id' = create_song_id(row)
    /\ last_row' = row
    /\ first_id' = IF first_id = Unset THEN create_song_id(row) ELSE first_id
    /\ first_row' = IF first_id = Unset THEN row ELSE first_row
    /\ UNCHANGED <<maVars, feVars, pc, row, ppVars, anVars>>

\* the catalog lists the same artists in another order
PermuteArtists ==
    /\ pc = "identity"
    /\ row.artists.t = "list"
    /\ \E i \in 1..(Len(row.artists.v) - 1) :
          row' = [row EXCEPT !.artists.v =
                     [@ EXCEPT ![i] = row.artists.v[i + 1],
                               ![i + 1] = row.artists.v[i]]]
    /\ UNCHANGED <<maVars, feVars, pc, song_id, first_id, last_row, first_row, ppVars, anVars>>

\* the catalog spells one letter of the name in the other case
RecaseName ==
    /\ pc = "identity"
    /\ row.name.t = "str"
    /\ \E i \in DOMAIN row.name.v :
          /\ SwapCaseChar(row.name.v[i]) # row.name.v[i]
          /\ row' = [row EXCEPT !.name.v[i] = SwapCaseChar(@)]
    /\ UNCHANGED <<maVars, feVars, pc, song_id, first_id, last_row, first_row, ppVars, anVars>>

\* the catalog spells one letter of an artist name in the other case
RecaseArtist ==
    /\ pc = "identity"
    /\ row.artists.t = "list"
    /\ \E j \in DOMAIN row.artists.v : \E i \in DOMAIN row.artists.v[j] :
          /\ SwapCaseChar(row.artists.v[j][i]) # row.artists.v[j][i]
          /\ row' = [row EXCEPT !.artists.v[j][i] = SwapCaseChar(@)]
    /\ UNCHANGED <<maVars, feVars, pc, song_id, first_id, last_row, first_row, ppVars, anVars>>

NextId == CreateSongId \/ PermuteArtists \/ RecaseName \/ RecaseArtist

SpecId == InitId /\ [][NextId]_vars

\* C1: whatever order the artists are listed in and whatever the case of
\* the letters of the name and of the artist names, create_song_id returns
\* the identity it returned for the record as first presented.
C1_IdentityStable == song_id # Unset => song_id = first_id

\* a digest was computed for a record whose artists are listed the other way
\* round and whose name and artists are spelled in another case than at first
C1_Witness ==
    /\ song_id # Unset /\ song_id.t = "md5"
    /\ first_row.artists.t = "list" /\ Len(first_row.artists.v) = 2
    /\ Lower(last_row.artists.v[1]) = Lower(first_row.artists.v[2])
    /\ last_row.artists.v[1] # first_row.artists.v[2]
    /\ last_row.name # first_row.name

-----------------------------------------------------------------------------
(* DataProcessor.preprocess *)

\* the ints of a set in ascending order: sorted(...)
RECURSIVE SortedInts(_)
SortedInts(S) ==
    IF S = {} THEN <<>>
    ELSE LET m == CHOOSE x \in S : \A y \in S : x <= y
         IN <<m>> \o SortedInts(S \ {m})

\* the digests of a set in ascending order (the sorted index of a groupby)
RECURSIVE SortedIds(_)
SortedIds(S) ==
    IF S = {} THEN <<>>
    ELSE LET m == CHOOSE x \in S : \A y \in S \ {x} : StrLess(x.v, y.v)
         IN <<m>> \o SortedIds(S \ {m})

RECURSIVE SumSeq(_)
SumSeq(q) == IF q = <<>> THEN 0 ELSE Head(q) + SumSeq(Tail(q))

Range(q) == {q[i] : i \in DOMAIN q}

\* line 109: years = sorted(df["year"].unique().tolist())
years_of(d) == SortedInts({d[i].year : i \in DOMAIN d})

\* line 113: df["song_id"] = df.apply(self.create_song_id, axis=1)
with_song_id(d) ==
    [i \in DOMAIN d |->
        [year |-> d[i].year, index |-> d[i].index, name |-> d[i].name,
         artists |-> d[i].artists, id |-> d[i].id,
         song_id |-> create_song_id(d[i])]]

IsValid(r) == r.song_id # None

\* line 114: df = df.dropna(subset=["song_id"])
dropna(d) == SelectSeq(d, IsValid)

\* the "index" values of the records of one song in one year, in input order
RanksAt(d, sid, y) ==
    LET Hit(r) == r.song_id = sid /\ r.year = y
        hits == SelectSeq(d, Hit)
    IN [i \in DOMAIN hits |-> hits[i].index]

\* lines 118-124: one cell of pivot_table(values="index") with the default
\* aggfunc "mean", after astype(int): the mean of the ranks, truncated
PivotCell(q) == SumSeq(q) \div Len(q)

\* lines 118-121: the columns pivot_table makes, one per year that a valid
\* record has
pivot_columns(d) == SortedInts({d[i].year : i \in DOMAIN d})

\* lines 118-124: the row of one song, year -> rank, fill_value=0
pivot_ranks(d, sid, years) ==
    [y \in Range(years) |->
        IF RanksAt(d, sid, y) = <<>> THEN 0 ELSE PivotCell(RanksAt(d, sid, y))]

\* a plausible slip: the metadata are merged without dropping duplicates
df_unique_all(d) == d

\* line 128: df.drop_duplicates(subset="song_id") keeps the first record of
\* each song_id, in input order
df_unique(d) ==
    LET First(i) == \A j \in 1..(i - 1) : d[j].song_id # d[i].song_id
        RECURSIVE Keep(_)
        Keep(i) == IF i > Len(d) THEN <<>>
                   ELSE (IF First(i) THEN <<d[i]>> ELSE <<>>) \o Keep(i + 1)
    IN Keep(1)

\* a plausible slip: >= 0 for > 0
list_appearances_ge(ranks, years) ==
    Cardinality({i \in DOMAIN years : ranks[years[i]] >= 0})

\* lines 137-139: (row > 0).sum() over the year columns
list_appearances(ranks, years) ==
    Cardinality({i \in DOMAIN years : ranks[years[i]] > 0})

\* a plausible slip: 100 - rank without the + 1
score_100(ranks, years) ==
    SumSeq([i \in DOMAIN years |->
               IF ranks[years[i]] = 0 THEN 0 ELSE 100 - ranks[years[i]]])

\* lines 142-146: (100 - ranks.replace(0, NA) + 1).fillna(0).sum(axis=1)
score(ranks, years) ==
    SumSeq([i \in DOMAIN years |->
               IF ranks[years[i]] = 0 THEN 0 ELSE 100 - ranks[years[i]] + 1])

\* lines 129-150: pd.merge(pivot_df, df_unique[...], on="song_id", how="left")
\* and the metrics: for each pivot row in order, one row per matching record
merge(ids, meta, d, years) ==
    LET RowsOf(sid) ==
            LET Hit(r) == r.song_id = sid
                m == SelectSeq(meta, Hit)
                ranks == pivot_ranks(d, sid, years)
            IN [k \in DOMAIN m |->
                   [name |-> m[k].name, artists |-> m[k].artists,
                    song_id |-> sid, id |-> m[k].id,
                    list_appearances |-> list_appearances(ranks, years),
                    score |-> score(ranks, years),
                    ranks |-> ranks]]
        RECURSIVE All(_)
        All(q) == IF q = <<>> THEN <<>> ELSE RowsOf(Head(q)) \o All(Tail(q))
    IN All(ids)

Returned(years, rows) == [status |-> "ok", years |-> years, rows |-> rows]
Raised(what) == [status |-> what, years |-> <<>>, rows |-> <<>>]

\* lines 108-153: preprocess of a frame that is not empty. pivot_df[years]
\* raises KeyError when a year of the input has no valid record, since
\* pivot_table makes no column for it
preprocess_body(d) ==
    LET years == years_of(d)
        valid == dropna(with_song_id(d))
        ids == SortedIds({valid[i].song_id : i \in DOMAIN valid})
    IN IF pivot_columns(valid) # years THEN Raised("KeyError")
       ELSE Returned(years, merge(ids, df_unique(valid), valid, years))

\* a plausible slip: refusing the empty frame as WrappedAnalyzer.__init__ does
preprocess_strict(d) ==
    IF d = <<>> THEN Raised("ValueError") ELSE preprocess_body(d)

\* DataProcessor.preprocess: the empty frame is returned as it is
preprocess(d) ==
    IF d = <<>> THEN Returned(<<>>, <<>>) ELSE preprocess_body(d)

\* a plausible slip: dropping the malformed records of the caller's frame
caller_frame_dropped(d) == IF d = <<>> THEN d ELSE
    LET w == with_song_id(d)
    IN [i \in DOMAIN dropna(w) |->
           [year |-> dropna(w)[i].year, index |-> dropna(w)[i].index,
            name |-> dropna(w)[i].name, artists |-> dropna(w)[i].artists,
            id |-> dropna(w)[i].id]]

\* line 108: df = df.copy(); every later step works on the copy or makes a
\* new frame, so the caller's frame holds after the call what it held before
caller_frame(d) == d

-----------------------------------------------------------------------------
(* The pipeline: a raw frame as load_raw_data returns it, preprocessed     *)
(* twice                                                                   *)

MaxRecords == 3

\* catalog entries: "a" by x and y; the same song as "A" by Y and x under
\* another catalog id; "b" by x; "b" with an empty artists cell; and "b" with
\* an empty artist list
Tracks ==
    {[name |-> Str(<<97>>), artists |-> List(<< <<120>>, <<121>> >>), id |-> 1],
     [name |-> Str(<<65>>), artists |-> List(<< <<89>>, <<120>> >>), id |-> 2],
     [name |-> Str(<<98>>), artists |-> List(<< <<120>> >>), id |-> 3],
     [name |-> Str(<<98>>), artists |-> NaN, id |-> 4],
     [name |-> Str(<<98>>), artists |-> List(<<>>), id |-> 5]}

PpYears == {2018, 2019}

\* the first and the last place of a Wrapped playlist of 100 tracks
PpRanks == {1, 100}

\* the rows of the raw table: year, index (the rank), name, artists, id.
\* The link column is read by nothing and is left out.
RawRecords ==
    {[year |-> y, index |-> k, name |-> t.name, artists |-> t.artists, id |-> t.id] :
        y \in PpYears, k \in PpRanks, t \in Tracks}

Init ==
    /\ pc = "loaded"
    /\ df \in UNION {[1..n -> RawRecords] : n \in 0..MaxRecords}
    /\ result = Unset /\ prev = Unset
    /\ IdIdle /\ AnIdle /\ FeIdle /\ MaIdle

\* processed_df = processor.preprocess(raw_df), a first and a second time
Preprocess ==
    /\ pc \in {"loaded", "once"}
    /\ pc' = IF pc = "loaded" THEN "once" ELSE "twice"
    /\ result' = preprocess(df)
    /\ prev' = result
    /\ df' = caller_frame(df)
    /\ UNCHANGED <<maVars, feVars, idVars, anVars>>

Next == Preprocess

Spec == Init /\ [][Next]_vars

Ok == result # Unset /\ result.status = "ok"

\* the identities of the records of the input that were not dropped
KeptIds == {create_song_id(df[k]) : k \in DOMAIN df} \ {None}

\* C2: the matrix has exactly one row for each distinct identity among the
\* records that were not dropped, and no two rows share a song_id.
C2_OneRowPerSong ==
    Ok => /\ {result.rows[i].song_id : i \in DOMAIN result.rows} = KeptIds
          /\ Len(result.rows) = Cardinality(KeptIds)

\* two catalog entries of one song, in two years, gave a single row
C2_Witness ==
    /\ Ok /\ Len(result.rows) = 2
    /\ \E j, k \in DOMAIN df :
          /\ df[j].id # df[k].id /\ df[j].year # df[k].year
          /\ df[j].index # df[k].index
          /\ create_song_id(df[j]) = create_song_id(df[k])

\* the ranks of the input records of one identity in one year
InputRanks(sid, y) ==
    {df[k].index : k \in {j \in DOMAIN df : create_song_id(df[j]) = sid /\ df[j].year = y}}

\* C3 (as claimed): every stored rank is 0 when the identity has no record
\* in that year and is otherwise the rank of one of its records in that year.
C3_RankIsAnInputRank ==
    Ok => \A i \in DOMAIN result.rows : \A y \in Range(result.years) :
            LET r == result.rows[i]
            IN IF InputRanks(r.song_id, y) = {} THEN r.ranks[y] = 0
               ELSE r.ranks[y] \in InputRanks(r.song_id, y)

\* C4: list_appearances is the number of years with a rank above 0.
C4_ListAppearances ==
    Ok => \A i \in DOMAIN result.rows :
            result.rows[i].list_appearances =
                Cardinality({y \in Range(result.years) : result.rows[i].ranks[y] > 0})

\* a song on the list in both years and a song on it in one of them
C4_Witness ==
    /\ Ok
    /\ \E i, j \in DOMAIN result.rows :
          /\ result.rows[i].list_appearances = 2
          /\ result.rows[j].list_appearances = 1
          /\ \E y \in Range(result.years) : result.rows[j].ranks[y] = 0

RECURSIVE SumOver(_, _)
SumOver(S, f) ==
    IF S = {} THEN 0
    ELSE LET x == CHOOSE x \in S : TRUE IN f[x] + SumOver(S \ {x}, f)

\* C5: score is the sum of 101 - rank over the years with a nonzero rank.
C5_Score ==
    Ok => \A i \in DOMAIN result.rows :
            LET r == result.rows[i]
                present == {y \in Range(result.years) : r.ranks[y] # 0}
            IN r.score = SumOver(present, [y \in present |-> 101 - r.ranks[y]])

\* a single rank 1 scored 100, a single rank 100 scored 1, and a song with a
\* rank in both years scored the sum
C5_Witness ==
    /\ Ok
    /\ \E i, j \in DOMAIN result.rows :
          /\ result.rows[i].list_appearances = 1 /\ result.rows[i].score = 100
          /\ result.rows[j].list_appearances = 2 /\ result.rows[j].score = 101
          /\ \E y \in Range(result.years) : result.rows[i].ranks[y] = 0

Malformed(r) == r.name = NaN \/ r.artists = NaN \/ r.artists = List(<<>>)

\* C7 (as claimed): a record whose name is missing or whose artist list is
\* empty gets no identity and gives the matrix no row, and the records that
\* are well formed are processed all the same.
C7_MalformedDropped ==
    result # Unset =>
        /\ \A k \in DOMAIN df : Malformed(df[k]) =>
              /\ create_song_id(df[k]) = None
              /\ \A i \in DOMAIN result.rows : result.rows[i].id # df[k].id
        /\ \A k \in DOMAIN df : ~Malformed(df[k]) =>
              \E i \in DOMAIN result.rows :
                  result.rows[i].song_id = create_song_id(df[k])

\* C8: preprocess of an empty record list returns an empty result and
\* raises nothing.
C8_EmptyInput ==
    (result # Unset /\ df = <<>>) => (result.status = "ok" /\ result.rows = <<>>)

\* preprocess has been called on the empty list
C8_Witness == result # Unset /\ df = <<>> /\ pc = "once"

\* C9 (as claimed): for every record list that is not empty, dropped records
\* or not, preprocess returns a matrix whose year columns are the years of
\* the input in ascending order, with an integer rank in every row for each.
C9_YearColumns ==
    (result # Unset /\ df # <<>>) =>
        /\ result.status = "ok"
        /\ result.years = SortedInts({df[k].year : k \in DOMAIN df})
        /\ \A i \in DOMAIN result.rows :
              /\ DOMAIN result.rows[i].ranks = Range(result.years)
              /\ \A y \in Range(result.years) : result.rows[i].ranks[y] \in Nat

-----------------------------------------------------------------------------
(* WrappedAnalyzer *)

\* lines 33-40: the constructor keeps a copy of the table and the sorted
\* integer column labels, and refuses a table with no row or no year column
analyzer_init(table) ==
    IF table.rows = <<>> THEN Raised("ValueError")
    ELSE IF table.years = <<>> THEN Raised("ValueError")
    ELSE Returned(SortedInts(Range(table.years)), table.rows)

\* lines 98-100: x.between(1, 10).any() over the year columns of a row
top_10_mask(r, years) == \E i \in DOMAIN years : r.ranks[years[i]] \in 1..10

\* line 115: in the top 10 this year, absent the next
is_dream(curr_rank, next_rank) ==
    1 <= curr_rank /\ curr_rank <= 10 /\ next_rank = 0

\* lines 116-126: the record appended for a song and the year pair at i
dream_record(r, years, i) ==
    [name |-> r.name, artists |-> r.artists, song_id |-> r.song_id,
     list_appearances |-> r.list_appearances, score |-> r.score,
     dream_year |-> years[i], rank_in_dream_year |-> r.ranks[years[i]]]

\* a plausible slip: the loop without its break
RECURSIVE dream_scan_all(_, _, _)
dream_scan_all(r, years, i) ==
    IF i > Len(years) - 1 THEN <<>>
    ELSE (IF is_dream(r.ranks[years[i]], r.ranks[years[i + 1]])
          THEN <<dream_record(r, years, i)>> ELSE <<>>)
         \o dream_scan_all(r, years, i + 1)

\* lines 107-127: the scan of the year pairs from i on, left at the first hit
RECURSIVE dream_scan(_, _, _)
dream_scan(r, years, i) ==
    IF i > Len(years) - 1 THEN <<>>
    ELSE IF is_dream(r.ranks[years[i]], r.ranks[years[i + 1]])
         THEN <<dream_record(r, years, i)>>
         ELSE dream_scan(r, years, i + 1)

\* lines 103-127: dream_runs, in the order of the rows of the matrix
RECURSIVE dream_runs(_, _)
dream_runs(rows, years) ==
    IF rows = <<>> THEN <<>>
    ELSE (IF top_10_mask(Head(rows), years)
          THEN dream_scan(Head(rows), years, 1) ELSE <<>>)
         \o dream_runs(Tail(rows), years)

\* the orders sort_values(key, ascending=False) may leave the records in:
\* descending by key, records of equal key in either order (the default
\* sort kind, quicksort, is not stable). keys[i] is the key of recs[i]
SortedDescBy(recs, keys) ==
    LET perms == {p \in [DOMAIN recs -> DOMAIN recs] :
                     /\ \A i, j \in DOMAIN recs : i # j => p[i] # p[j]
                     /\ \A i \in 1..(Len(recs) - 1) : keys[p[i]] >= keys[p[i + 1]]}
    IN {[i \in DOMAIN recs |-> recs[p[i]]] : p \in perms}

Answer(fn, status, rows) == [fn |-> fn, status |-> status, rows |-> rows]

\* lines 97-131: what one_year_dream_runs may return. sort_values raises
\* KeyError on the frame of an empty list, which has no dream_year column
one_year_dream_runs(a) ==
    LET recs == dream_runs(a.rows, a.years)
    IN IF recs = <<>> THEN {Answer("one_year_dream_runs", "KeyError", <<>>)}
       ELSE {Answer("one_year_dream_runs", "ok", q) :
                q \in SortedDescBy(recs, [i \in DOMAIN recs |-> recs[i].dream_year])}

\* a plausible slip: >= for >, so that an unchanged rank counts as a climb
is_up_ge(curr_rank, next_rank, off_list) ==
    next_rank > 0 /\ (curr_rank >= next_rank \/ off_list)

\* lines 170-171: back on the list, with a better rank or after an absence
is_up(curr_rank, next_rank, off_list) ==
    next_rank > 0 /\ (curr_rank > next_rank \/ off_list)

\* lines 172-184: the record appended for a song and the year pair at i
up_record(r, years, i, off_list) ==
    [name |-> r.name, artists |-> r.artists, song_id |-> r.song_id,
     list_appearances |-> r.list_appearances, score |-> r.score,
     recovery_type |-> IF off_list THEN "returned" ELSE "climbed",
     recovery_year |-> years[i + 1],
     previous_rank |-> r.ranks[years[i]], new_rank |-> r.ranks[years[i + 1]]]

\* lines 157-185: the scan of the year pairs from i on; off_list is set at a
\* pair that goes from present to absent and stays set; left at the first hit
RECURSIVE up_scan(_, _, _, _)
up_scan(r, years, i, off_list) ==
    IF i > Len(years) - 1 THEN <<>>
    ELSE LET curr_rank == r.ranks[years[i]]
             next_rank == r.ranks[years[i + 1]]
             off == off_list \/ (curr_rank > 0 /\ next_rank = 0)
         IN IF is_up(curr_rank, next_rank, off)
            THEN <<up_record(r, years, i, off)>>
            ELSE up_scan(r, years, i + 1, off)

\* lines 152-185: on_the_up_list, over the rows with list_appearances >= 2
RECURSIVE on_the_up_list(_, _)
on_the_up_list(rows, years) ==
    IF rows = <<>> THEN <<>>
    ELSE (IF Head(rows).list_appearances >= 2
          THEN up_scan(Head(rows), years, 1, FALSE) ELSE <<>>)
         \o on_the_up_list(Tail(rows), years)

\* lines 151-189: what on_the_up may return. sort_values raises KeyError on
\* the frame of an empty list, which has no recovery_year column
on_the_up(a) ==
    LET recs == on_the_up_list(a.rows, a.years)
    IN IF recs = <<>> THEN {Answer("on_the_up", "KeyError", <<>>)}
       ELSE {Answer("on_the_up", "ok", q) :
                q \in SortedDescBy(recs, [i \in DOMAIN recs |-> recs[i].recovery_year])}

\* a plausible slip: no break at the first absent year, so that every present
\* year is counted
RECURSIVE streak_count_all(_, _, _)
streak_count_all(r, years, i) ==
    IF i = 0 THEN 0
    ELSE (IF r.ranks[years[i]] > 0 THEN 1 ELSE 0) + streak_count_all(r, years, i - 1)

\* lines 267-272: the present years counted back from position i, up to the
\* first absent year
RECURSIVE streak_count(_, _, _)
streak_count(r, years, i) ==
    IF i = 0 THEN 0
    ELSE IF r.ranks[years[i]] > 0 THEN 1 + streak_count(r, years, i - 1)
         ELSE 0

\* lines 261-288: the record of one row, if it makes one
streak_record(r, years, min_consecutive) ==
    LET streak_length == streak_count(r, years, Len(years))
        streak_start_idx == Len(years) - streak_length
    IN IF r.ranks[years[Len(years)]] = 0 THEN <<>>
       ELSE IF streak_length >= min_consecutive
            THEN <<[name |-> r.name, artists |-> r.artists, song_id |-> r.song_id,
                    list_appearances |-> r.list_appearances, score |-> r.score,
                    streak_length |-> streak_length,
                    streak_start_year |-> years[streak_start_idx + 1]]>>
            ELSE <<>>

\* lines 259-288: active_streaks_list
RECURSIVE active_streaks_list(_, _, _)
active_streaks_list(rows, years, min_consecutive) ==
    IF rows = <<>> THEN <<>>
    ELSE streak_record(Head(rows), years, min_consecutive)
         \o active_streaks_list(Tail(rows), years, min_consecutive)

\* an answer of a call that takes an argument
AnswerOf(fn, arg, status, rows) ==
    [fn |-> fn, arg |-> arg, status |-> status, rows |-> rows]

\* lines 259-292: what active_streaks may return. sort_values raises KeyError
\* on the frame of an empty list, which has no streak_length column
active_streaks(a, min_consecutive) ==
    LET recs == active_streaks_list(a.rows, a.years, min_consecutive)
    IN IF recs = <<>> THEN {AnswerOf("active_streaks", min_consecutive, "KeyError", <<>>)}
       ELSE {AnswerOf("active_streaks", min_consecutive, "ok", q) :
                q \in SortedDescBy(recs, [i \in DOMAIN recs |-> recs[i].streak_length])}

\* a plausible slip: the mask taken over all the years, the first included
never_returned_mask_all(r, years) ==
    \A i \in 1..Len(years) : r.ranks[years[i]] = 0

\* line 216: self.df[self.years[1:]].eq(0).all(axis=1), for one row; over no
\* column at all, all() is True
never_returned_mask(r, years) ==
    \A i \in 2..Len(years) : r.ranks[years[i]] = 0

\* lines 209-229: the three groups, each in the order of the matrix. A mask is
\* aligned on the row labels, so it is applied row by row
first_to_last_time(a) ==
    LET first_year == a.years[1]
        last_year == a.years[Len(a.years)]
        InFirst(r) == r.ranks[first_year] > 0
        Only(r) == never_returned_mask(r, a.years) /\ r.ranks[first_year] > 0
        Stayed(r) == ~never_returned_mask(r, a.years)
        ToLast(r) == r.ranks[last_year] > 0 /\ r.ranks[first_year] > 0
        first_year_tracks == SelectSeq(a.rows, InFirst)
    IN {[fn |-> "first_to_last_time", status |-> "ok",
         first_year_only |-> SelectSeq(first_year_tracks, Only),
         persisted |-> SelectSeq(first_year_tracks, Stayed),
         persisted_to_last |-> SelectSeq(first_year_tracks, ToLast)]}

\* a plausible slip: >= 1 for == 1 in the filter
is_one_timer_ge(r) == r.list_appearances >= 1

\* line 307: the filter of one_timers
is_one_timer(r) == r.list_appearances = 1

\* line 311: the first year with a rank above 0, None when there is none
appearance_year(r, years) ==
    LET hit == {i \in DOMAIN years : r.ranks[years[i]] > 0}
    IN IF hit = {} THEN None
       ELSE years[CHOOSE i \in hit : \A j \in hit : i <= j]

\* lines 307-312: one_timers_df with its appearance_year column
RECURSIVE one_timers_df(_, _)
one_timers_df(rows, years) ==
    IF rows = <<>> THEN <<>>
    ELSE (IF is_one_timer(Head(rows))
          THEN <<[name |-> Head(rows).name, artists |-> Head(rows).artists,
                  song_id |-> Head(rows).song_id,
                  list_appearances |-> Head(rows).list_appearances,
                  score |-> Head(rows).score, ranks |-> Head(rows).ranks,
                  appearance_year |-> appearance_year(Head(rows), years)]>>
          ELSE <<>>)
         \o one_timers_df(Tail(rows), years)

\* lines 307-316: what one_timers may return. With no row left by the filter,
\* apply() gives an empty Series in a pandas release that probes the lambda
\* with a row of NaN, and a copy of the empty frame in one that probes it with
\* an empty Series; the copy cannot be set as one column when it has several
one_timers(a) ==
    LET recs == one_timers_df(a.rows, a.years)
    IN IF recs = <<>>
       THEN {Answer("one_timers", "ok", <<>>)}
            \cup (IF Len(a.years) > 1
                  THEN {Answer("one_timers", "ValueError", <<>>)} ELSE {})
       ELSE {Answer("one_timers", "ok", q) :
                q \in SortedDescBy(recs, [i \in DOMAIN recs |-> recs[i].appearance_year])}

\* the code points str.strip() takes for whitespace, among those below 128
IsSpace(c) == c \in (9..13) \cup (28..32)

\* a plausible slip: lstrip() for strip()
RECURSIVE LStrip(_)
LStrip(s) ==
    IF s = <<>> THEN <<>>
    ELSE IF IsSpace(Head(s)) THEN LStrip(Tail(s))
    ELSE s

RECURSIVE RStrip(_)
RStrip(s) ==
    IF s = <<>> THEN <<>>
    ELSE IF IsSpace(s[Len(s)]) THEN RStrip(SubSeq(s, 1, Len(s) - 1))
    ELSE s

\* line 61: str.strip() of one artist name
Strip(s) == RStrip(LStrip(s))

\* lines 60-61: the rows that explode("artists") makes of one row of the
\* matrix, one per artist, stripped; an empty list gives one row of NaN
explode_row(r) ==
    IF r.artists.v = <<>>
    THEN <<[artists |-> NaN, song_id |-> r.song_id,
            list_appearances |-> r.list_appearances, score |-> r.score]>>
    ELSE [i \in DOMAIN r.artists.v |->
            [artists |-> Str(Strip(r.artists.v[i])), song_id |-> r.song_id,
             list_appearances |-> r.list_appearances, score |-> r.score]]

\* lines 60-61: exploded
RECURSIVE exploded(_)
exploded(rows) ==
    IF rows = <<>> THEN <<>>
    ELSE explode_row(Head(rows)) \o exploded(Tail(rows))

\* the texts of a set in ascending order, as groupby orders its keys
RECURSIVE SortedTexts(_)
SortedTexts(S) ==
    IF S = {} THEN <<>>
    ELSE LET m == CHOOSE x \in S : \A o \in S \ {x} : StrLess(x, o)
         IN <<m>> \o SortedTexts(S \ {m})

\* lines 64-72: one row of artist_stats; the mean is kept as the sum of the
\* scores over their number
artist_row(key, ex) ==
    LET IsIn(e) == e.artists = Str(key)
        grp == SelectSeq(ex, IsIn)
    IN [artist |-> key, track_count |-> Len(grp),
        total_appearances |-> SumSeq([i \in DOMAIN grp |-> grp[i].list_appearances]),
        avg_score |-> [sum |-> SumSeq([i \in DOMAIN grp |-> grp[i].score]),
                       n |-> Len(grp)]]

\* lines 64-72: groupby("artists").agg(...).reset_index(); the rows of NaN
\* make no group
artist_stats(ex) ==
    LET keys == SortedTexts({ex[i].artists.v : i \in {j \in DOMAIN ex : ex[j].artists # NaN}})
    IN [i \in DOMAIN keys |-> artist_row(keys[i], ex)]

\* lines 59-77: what most_popular_artists may return
most_popular_artists(a) ==
    LET recs == artist_stats(exploded(a.rows))
    IN {Answer("most_popular_artists", "ok", q) :
           q \in SortedDescBy(recs, [i \in DOMAIN recs |-> recs[i].track_count])}

\* a plausible slip: one_timers keeps its filtered frame in self.df
self_df_filtered(a, fn) ==
    IF fn = "one_timers" THEN [a EXCEPT !.rows = SelectSeq(a.rows, is_one_timer)]
    ELSE a

\* self.df after a call of fn: every method works on a frame of its own
\* (explode at line 60, .copy() at lines 101, 152, 213 and 307, a list of
\* dicts at lines 103, 154 and 259) and none assigns to self.df
self_df(a, fn) == a

-----------------------------------------------------------------------------
(* The analyzer on a processed table. The tables are as preprocess returns *)
(* them: rows in song_id order, a rank above 0 in every row and in every   *)
(* year column, list_appearances and score as preprocess computes them.    *)

MaxYears == 4

\* absent, the last place of the top 10, the first place below it
AnRanks == {0, 10, 11}

\* "a" by x and y, and "b" by x
AnSongs == {t \in Tracks : t.id \in {1, 3}}

AnYears(n) == [i \in 1..n |-> 2017 + i]

TableRow(t, ranks, years) ==
    [name |-> t.name, artists |-> t.artists, song_id |-> create_song_id(t),
     id |-> t.id, list_appearances |-> list_appearances(ranks, years),
     score |-> score(ranks, years), ranks |-> ranks]

TableOf(S, f, years) ==
    LET ids == SortedIds({create_song_id(t) : t \in S})
        SongOf(sid) == CHOOSE t \in S : create_song_id(t) = sid
    IN Returned(years,
                [i \in DOMAIN ids |-> TableRow(SongOf(ids[i]), f[SongOf(ids[i])], years)])

\* the empty table, or a table of one to maxYears years and one or two songs
InitTable(maxYears) ==
    /\ pc = "table"
    /\ \E n \in 0..maxYears : \E S \in SUBSET AnSongs :
          \E f \in [S -> [Range(AnYears(n)) -> AnRanks]] :
              /\ (n = 0) <=> (S = {})
              /\ \A t \in S : {y \in Range(AnYears(n)) : f[t][y] > 0} # {}
              /\ \A y \in Range(AnYears(n)) : {t \in S : f[t][y] > 0} # {}
              /\ result = TableOf(S, f, AnYears(n))
    /\ df = Unset /\ prev = Unset
    /\ IdIdle /\ AnIdle /\ FeIdle /\ MaIdle

InitAn == InitTable(MaxYears)

\* analyzer = WrappedAnalyzer(df)
AnalyzerInit ==
    /\ pc = "table"
    /\ adf' = analyzer_init(result)
    /\ pc' = IF analyzer_init(result).status = "ok" THEN "ready" ELSE "failed"
    /\ UNCHANGED <<maVars, feVars, idVars, ppVars, out>>

\* analyzer.one_year_dream_runs()
OneYearDreamRuns ==
    /\ pc = "ready"
    /\ out' \in one_year_dream_runs(adf)
    /\ adf' = self_df(adf, "one_year_dream_runs")
    /\ UNCHANGED <<maVars, feVars, pc, idVars, ppVars>>

\* analyzer.on_the_up()
OnTheUp ==
    /\ pc = "ready"
    /\ out' \in on_the_up(adf)
    /\ adf' = self_df(adf, "on_the_up")
    /\ UNCHANGED <<maVars, feVars, pc, idVars, ppVars>>

\* the values of min_consecutive the callers are taken to pass
MinConsecutive == 0..3

\* analyzer.active_streaks(min_consecutive)
ActiveStreaks ==
    /\ pc = "ready"
    /\ \E min_consecutive \in MinConsecutive :
          out' \in active_streaks(adf, min_consecutive)
    /\ adf' = self_df(adf, "active_streaks")
    /\ UNCHANGED <<maVars, feVars, pc, idVars, ppVars>>

\* analyzer.first_to_last_time()
FirstToLastTime ==
    /\ pc = "ready"
    /\ out' \in first_to_last_time(adf)
    /\ adf' = self_df(adf, "first_to_last_time")
    /\ UNCHANGED <<maVars, feVars, pc, idVars, ppVars>>

\* analyzer.one_timers()
OneTimers ==
    /\ pc = "ready"
    /\ out' \in one_timers(adf)
    /\ adf' = self_df(adf, "one_timers")
    /\ UNCHANGED <<maVars, feVars, pc, idVars, ppVars>>

\* analyzer.most_popular_artists()
MostPopularArtists ==
    /\ pc = "ready"
    /\ out' \in most_popular_artists(adf)
    /\ adf' = self_df(adf, "most_popular_artists")
    /\ UNCHANGED <<maVars, feVars, pc, idVars, ppVars>>

NextAn ==
    \/ AnalyzerInit \/ OneYearDreamRuns \/ OnTheUp \/ ActiveStreaks
    \/ FirstToLastTime \/ OneTimers \/ MostPopularArtists

SpecAn == InitAn /\ [][NextAn]_vars

\* the same calls on the tables of up to MaxSeqYears years, for the claim on
\* sequences of calls
MaxSeqYears == 3

InitSeq == InitTable(MaxSeqYears)

SpecSeq == InitSeq /\ [][NextAn]_vars

\* the positions of the year pairs of a row that make a dream run
DreamPairs(r, years) ==
    {i \in 1..(Len(years) - 1) :
        r.ranks[years[i]] \in 1..10 /\ r.ranks[years[i + 1]] = 0}

\* C10: one_year_dream_runs emits at most one record per song; a song is
\* emitted exactly when some consecutive year pair has a rank in [1, 10]
\* followed by rank 0; dream_year is the earliest such year and
\* rank_in_dream_year the song's rank in it.
C10_DreamRuns ==
    (out # Unset /\ out.fn = "one_year_dream_runs") =>
        /\ \A k, l \in DOMAIN out.rows :
              out.rows[k].song_id = out.rows[l].song_id => k = l
        /\ \A i \in DOMAIN adf.rows :
              (\E k \in DOMAIN out.rows : out.rows[k].song_id = adf.rows[i].song_id)
                  <=> DreamPairs(adf.rows[i], adf.years) # {}
        /\ \A k \in DOMAIN out.rows : \A i \in DOMAIN adf.rows :
              out.rows[k].song_id = adf.rows[i].song_id =>
                  LET P == DreamPairs(adf.rows[i], adf.years)
                      first == CHOOSE p \in P : \A o \in P : p <= o
                  IN /\ out.rows[k].dream_year = adf.years[first]
                     /\ out.rows[k].rank_in_dream_year =
                            adf.rows[i].ranks[adf.years[first]]

\* a song with two dream runs was emitted for the first, beside a song with
\* none that was not emitted
C10_Witness ==
    /\ out # Unset /\ out.fn = "one_year_dream_runs" /\ out.status = "ok"
    /\ Len(adf.rows) = 2 /\ Len(out.rows) = 1
    /\ \E i \in DOMAIN adf.rows :
          /\ adf.rows[i].song_id = out.rows[1].song_id
          /\ Cardinality(DreamPairs(adf.rows[i], adf.years)) = 2
          /\ out.rows[1].dream_year = 2018
          /\ out.rows[1].rank_in_dream_year = 10

\* the song had a present-then-absent year pair before the pair at i
OffBefore(r, years, i) ==
    \E j \in 1..(i - 1) : r.ranks[years[j]] > 0 /\ r.ranks[years[j + 1]] = 0

\* the positions of the year pairs of a row that make a recovery
UpPairs(r, years) ==
    {i \in 1..(Len(years) - 1) :
        /\ r.ranks[years[i + 1]] > 0
        /\ (r.ranks[years[i]] > r.ranks[years[i + 1]] \/ OffBefore(r, years, i))}

\* C11: on_the_up emits at most one record per song and only for songs with
\* list_appearances >= 2; the record is taken at the first year pair whose
\* later rank is above 0 and whose earlier rank is greater or which follows
\* a present-then-absent pair; recovery_type is "returned" exactly when such
\* a pair preceded it, "climbed" otherwise; recovery_year is the later year.
C11_OnTheUp ==
    (out # Unset /\ out.fn = "on_the_up") =>
        /\ \A k, l \in DOMAIN out.rows :
              out.rows[k].song_id = out.rows[l].song_id => k = l
        /\ \A i \in DOMAIN adf.rows :
              (\E k \in DOMAIN out.rows : out.rows[k].song_id = adf.rows[i].song_id)
                  <=> (/\ adf.rows[i].list_appearances >= 2
                       /\ UpPairs(adf.rows[i], adf.years) # {})
        /\ \A k \in DOMAIN out.rows : \A i \in DOMAIN adf.rows :
              out.rows[k].song_id = adf.rows[i].song_id =>
                  LET P == UpPairs(adf.rows[i], adf.years)
                      first == CHOOSE p \in P : \A o \in P : p <= o
                  IN /\ out.rows[k].recovery_year = adf.years[first + 1]
                     /\ out.rows[k].recovery_type =
                            (IF OffBefore(adf.rows[i], adf.years, first)
                             THEN "returned" ELSE "climbed")

\* one song returned after a year off the list and another climbed, beside
\* no song left out
C11_Witness ==
    /\ out # Unset /\ out.fn = "on_the_up" /\ out.status = "ok"
    /\ Len(out.rows) = 2
    /\ \E k, l \in DOMAIN out.rows :
          /\ out.rows[k].recovery_type = "returned" /\ out.rows[k].previous_rank = 0
          /\ out.rows[l].recovery_type = "climbed" /\ out.rows[l].previous_rank = 11


\* the years of a row from position s through the final year are all present
PresentFrom(r, years, s) == \A j \in s..Len(years) : r.ranks[years[j]] > 0

\* the positions at which a run of present years reaching the final year can
\* start: all present from there on, and the matrix starts there or the year
\* before is absent
StreakStarts(r, years) ==
    {s \in 1..Len(years) :
        /\ PresentFrom(r, years, s)
        /\ (s = 1 \/ r.ranks[years[s - 1]] = 0)}

\* C12: active_streaks(min_consecutive) emits a song exactly when it is
\* present in the final year and its run of present years counted back from
\* the final year is at least min_consecutive long; streak_length is the
\* length of that run, every year from streak_start_year through the final
\* year is present, and streak_start_year is the first year of the matrix or
\* comes right after an absent year.
C12_ActiveStreaks ==
    (out # Unset /\ out.fn = "active_streaks") =>
        LET years == adf.years
            n == Len(years)
        IN /\ \A i \in DOMAIN adf.rows :
                 LET r == adf.rows[i]
                     hits == {k \in DOMAIN out.rows : out.rows[k].song_id = r.song_id}
                     S == StreakStarts(r, years)
                 IN /\ Cardinality(hits) <= 1
                    /\ (hits # {}) <=>
                          (/\ r.ranks[years[n]] > 0
                           /\ \E s \in S : n - s + 1 >= out.arg)
                    /\ \A k \in hits :
                          \E s \in S :
                             /\ out.rows[k].streak_length = n - s + 1
                             /\ out.rows[k].streak_start_year = years[s]
           /\ \A k \in DOMAIN out.rows :
                 \E i \in DOMAIN adf.rows : out.rows[k].song_id = adf.rows[i].song_id

\* a song with a gap before its final run is emitted with the start of the
\* run after the gap, beside a song left out for a short run
C12_Witness ==
    /\ out # Unset /\ out.fn = "active_streaks" /\ out.status = "ok"
    /\ out.arg = 2 /\ Len(adf.years) = 4 /\ Len(adf.rows) = 2
    /\ Len(out.rows) = 1
    /\ out.rows[1].streak_length = 2
    /\ out.rows[1].streak_start_year = adf.years[3]
    /\ \E i \in DOMAIN adf.rows :
          /\ adf.rows[i].song_id = out.rows[1].song_id
          /\ adf.rows[i].ranks[adf.years[1]] > 0


\* the song_ids of a sequence of rows
IdsOf(rows) == {rows[k].song_id : k \in DOMAIN rows}

\* C13: first_to_last_time puts every song with a rank above 0 in the first
\* year in exactly one of first_year_only and persisted, in first_year_only
\* exactly when its rank is 0 in every later year, and puts no song that is
\* absent in the first year in either group.
C13_FirstYearSplit ==
    (out # Unset /\ out.fn = "first_to_last_time") =>
        \A i \in DOMAIN adf.rows :
            LET r == adf.rows[i]
                inOnly == r.song_id \in IdsOf(out.first_year_only)
                inPersisted == r.song_id \in IdsOf(out.persisted)
            IN IF r.ranks[adf.years[1]] > 0
               THEN /\ inOnly # inPersisted
                    /\ inOnly <=> (\A j \in 2..Len(adf.years) : r.ranks[adf.years[j]] = 0)
               ELSE ~inOnly /\ ~inPersisted

\* one song of the first year never came back and the other one did
C13_Witness ==
    /\ out # Unset /\ out.fn = "first_to_last_time"
    /\ Len(out.first_year_only) = 1 /\ Len(out.persisted) = 1
    /\ out.persisted_to_last = out.persisted
    /\ Len(adf.rows) = 2 /\ Len(adf.years) = 4

\* C14: in the result of first_to_last_time every song of persisted_to_last is
\* also in persisted, for every matrix the analyzer accepts.
C14_PersistedToLastInPersisted ==
    (out # Unset /\ out.fn = "first_to_last_time") =>
        IdsOf(out.persisted_to_last) \subseteq IdsOf(out.persisted)

\* C15: one_timers returns exactly the songs with list_appearances = 1, each
\* once, and appearance_year is the one year in which the rank of the song is
\* not 0.
C15_OneTimers ==
    (out # Unset /\ out.fn = "one_timers") =>
        /\ \A k, l \in DOMAIN out.rows :
              out.rows[k].song_id = out.rows[l].song_id => k = l
        /\ \A i \in DOMAIN adf.rows :
              (adf.rows[i].song_id \in IdsOf(out.rows))
                  <=> (out.status = "ok" /\ adf.rows[i].list_appearances = 1)
        /\ \A k \in DOMAIN out.rows :
              \E i \in DOMAIN adf.rows :
                 /\ adf.rows[i].song_id = out.rows[k].song_id
                 /\ \A y \in Range(adf.years) :
                       (adf.rows[i].ranks[y] # 0) <=> (y = out.rows[k].appearance_year)

\* a song seen in the third of four years only is returned, beside a song seen
\* twice that is not
C15_Witness ==
    /\ out # Unset /\ out.fn = "one_timers" /\ out.status = "ok"
    /\ Len(adf.rows) = 2 /\ Len(adf.years) = 4
    /\ Len(out.rows) = 1
    /\ out.rows[1].appearance_year = adf.years[3]

\* C17: one_year_dream_runs, on_the_up, active_streaks and first_to_last_time
\* on an empty or single-year matrix end in a failure and return no table.
C17_NeedsTwoYears ==
    (/\ out # Unset
     /\ out.fn \in {"one_year_dream_runs", "on_the_up", "active_streaks",
                    "first_to_last_time"}
     /\ Len(adf.years) < 2)
        => out.status # "ok"

-----------------------------------------------------------------------------
(* The analyzer on tables whose artist names carry whitespace.             *)

\* "c" by " x", "d" by "x " and y, "e" by y and x, "f" by nobody
ArtSongs ==
    {[name |-> Str(<<99>>), artists |-> List(<< <<32, 120>> >>), id |-> 6],
     [name |-> Str(<<100>>), artists |-> List(<< <<120, 32>>, <<121>> >>), id |-> 7],
     [name |-> Str(<<101>>), artists |-> List(<< <<121>>, <<120>> >>), id |-> 8],
     [name |-> Str(<<102>>), artists |-> List(<<>>), id |-> 9]}

ArtYears == AnYears(2)

\* a table of two years and one to four songs
InitArt ==
    /\ pc = "table"
    /\ \E S \in SUBSET ArtSongs :
          \E f \in [S -> [Range(ArtYears) -> AnRanks]] :
              /\ S # {}
              /\ \A t \in S : {y \in Range(ArtYears) : f[t][y] > 0} # {}
              /\ \A y \in Range(ArtYears) : {t \in S : f[t][y] > 0} # {}
              /\ result = TableOf(S, f, ArtYears)
    /\ df = Unset /\ prev = Unset
    /\ IdIdle /\ AnIdle /\ FeIdle /\ MaIdle

NextArt == AnalyzerInit \/ MostPopularArtists

SpecArt == InitArt /\ [][NextArt]_vars


\* the artist names of the matrix, as the lists of the songs give them
ArtistsOf(rows) ==
    UNION {Range(rows[i].artists.v) : i \in DOMAIN rows}

\* a name without the whitespace around it: the part of the name from its
\* first to its last code point that is not whitespace
Trimmed(x) ==
    LET ink == {i \in DOMAIN x : ~IsSpace(x[i])}
    IN IF ink = {} THEN <<>>
       ELSE SubSeq(x, CHOOSE i \in ink : \A j \in ink : i <= j,
                      CHOOSE i \in ink : \A j \in ink : i >= j)

\* C16: in the output of most_popular_artists every artist that appears in
\* the artist list of at least one song appears in exactly one output row,
\* and no other artist appears.
C16_EveryArtistOnce ==
    (out # Unset /\ out.fn = "most_popular_artists") =>
        /\ \A x \in ArtistsOf(adf.rows) :
              Cardinality({k \in DOMAIN out.rows : out.rows[k].artist = x}) = 1
        /\ \A k \in DOMAIN out.rows : out.rows[k].artist \in ArtistsOf(adf.rows)

\* C16, amended: every artist name of the matrix, stripped of the whitespace
\* around it, appears in exactly one output row, and no other name appears.
C16_EveryStrippedArtistOnce ==
    (out # Unset /\ out.fn = "most_popular_artists") =>
        /\ \A x \in ArtistsOf(adf.rows) :
              Cardinality({k \in DOMAIN out.rows : out.rows[k].artist = Trimmed(x)}) = 1
        /\ \A k \in DOMAIN out.rows :
              \E x \in ArtistsOf(adf.rows) : out.rows[k].artist = Trimmed(x)

\* three spellings of one artist are counted in one row, before the row of
\* the other artist
C16_Witness ==
    /\ out # Unset /\ out.fn = "most_popular_artists"
    /\ Len(adf.rows) = 4
    /\ Len(out.rows) = 2
    /\ out.rows[1].artist = <<120>> /\ out.rows[1].track_count = 3
    /\ out.rows[2].artist = <<121>> /\ out.rows[2].track_count = 2


\* the answers that the call recorded in o may give on the analyzer a
CallOn(a, o) ==
    CASE o.fn = "one_year_dream_runs" -> one_year_dream_runs(a)
      [] o.fn = "on_the_up" -> on_the_up(a)
      [] o.fn = "active_streaks" -> active_streaks(a, o.arg)
      [] o.fn = "first_to_last_time" -> first_to_last_time(a)
      [] o.fn = "one_timers" -> one_timers(a)
      [] o.fn = "most_popular_artists" -> most_popular_artists(a)

-----------------------------------------------------------------------------
(* get_full_tracklist: SpotifyWrappedFetcher.get_full_tracklist of         *)
(* src/spotify_fetcher.py and the function of the first script,            *)
(* get_playlists.get_full_tracklist.                                       *)

\* the most items of one playlist
MaxItems == 2

FeYears == {2018, 2019, 2020}

\* the track at a place of a playlist
FeTrackAt(k) == CHOOSE t \in Tracks : t.id = ((k - 1) % 3) + 1

\* playlist["tracks"]["items"]: at each place the track, or None for a track
\* that was deleted
FeItems ==
    UNION {{q \in [1..n -> {t \in Tracks : t.id \in 1..3} \cup {None}] :
               \A k \in 1..n : q[k] \in {FeTrackAt(k), None}} : n \in 0..MaxItems}

\* what sp.playlist(playlist_id) does: it raises, or it returns a playlist
FeLoads == {[ok |-> FALSE, items |-> <<>>]} \cup {[ok |-> TRUE, items |-> q] : q \in FeItems}

\* lines 85-92 (get_playlists.py 30-37): the record of a track at a rank
track_data(year, rank, track) ==
    [year |-> year, index |-> rank, name |-> track.name,
     artists |-> track.artists, id |-> track.id]

\* spotify_fetcher.py lines 79-93: the records of one playlist, the deleted
\* tracks skipped, each rank the place in the playlist
RECURSIVE playlist_records(_, _, _)
playlist_records(year, items, rank) ==
    IF rank > Len(items) THEN <<>>
    ELSE (IF items[rank] = None THEN <<>>
          ELSE <<track_data(year, rank, items[rank])>>)
         \o playlist_records(year, items, rank + 1)

\* line 64: sorted(playlists.items())
sorted_items(pl) ==
    LET ys == SortedInts({pl[i].year : i \in DOMAIN pl})
    IN [i \in DOMAIN ys |-> CHOOSE p \in Range(pl) : p.year = ys[i]]

\* the state of a call at its start: the order of the loop, the place in it,
\* the master list, the playlist variable of the loop body
fetch_start(impl, order) ==
    [impl |-> impl, order |-> order, i |-> 1, master_list |-> <<>>,
     cur_playlist |-> Unset, status |-> "running"]

\* spotify_fetcher.py lines 64-95: one turn of the loop over the years
fetch_year(f) ==
    LET p == f.order[f.i]
    IN IF ~p.load.ok THEN [f EXCEPT !.i = f.i + 1]
       ELSE [f EXCEPT !.i = f.i + 1, !.cur_playlist = p.load,
                      !.master_list = f.master_list
                                        \o playlist_records(p.year, p.load.items, 1)]

\* get_playlists.py lines 20-39: the records of one playlist up to its first
\* deleted track, at which CURRENT_TRACK['name'] raises TypeError
RECURSIVE legacy_records(_, _, _)
legacy_records(year, items, rank) ==
    IF rank > Len(items) THEN <<>>
    ELSE IF items[rank] = None THEN <<>>
    ELSE <<track_data(year, rank, items[rank])>>
         \o legacy_records(year, items, rank + 1)

\* get_playlists.py lines 10-41: one turn of the loop over the years. The
\* except branch prints and falls through, so cur_playlist is the playlist of
\* an earlier turn, or is not bound yet when the first load fails
legacy_fetch_year(f) ==
    LET p == f.order[f.i]
        cur == IF p.load.ok THEN p.load ELSE f.cur_playlist
    IN IF cur = Unset THEN [f EXCEPT !.status = "UnboundLocalError"]
       ELSE [f EXCEPT !.i = f.i + 1, !.cur_playlist = cur,
                      !.master_list = f.master_list
                                        \o legacy_records(p.year, cur.items, 1),
                      !.status = IF \E k \in DOMAIN cur.items : cur.items[k] = None
                                 THEN "TypeError" ELSE "running"]

\* the playlists dict: the years in the order of the dict, each with what
\* loading its playlist does
InitFetch ==
    /\ pc = "config"
    /\ \E ord \in {q \in [1..Cardinality(FeYears) -> FeYears] :
                      \A i, j \in DOMAIN q : i # j => q[i] # q[j]} :
          \E l \in [FeYears -> FeLoads] :
             playlists = [i \in DOMAIN ord |-> [year |-> ord[i], load |-> l[ord[i]]]]
    /\ fetch = Unset
    /\ IdIdle /\ PpIdle /\ AnIdle /\ MaIdle

\* fetcher.get_full_tracklist(playlists) is called
FetchCall ==
    /\ pc = "config"
    /\ fetch' = fetch_start("fetcher", sorted_items(playlists))
    /\ pc' = "fetching"
    /\ UNCHANGED <<maVars, idVars, ppVars, anVars, playlists>>

\* get_playlists.get_full_tracklist(sp, playlists) is called
LegacyFetchCall ==
    /\ pc = "config"
    /\ fetch' = fetch_start("get_playlists", playlists)
    /\ pc' = "fetching"
    /\ UNCHANGED <<maVars, idVars, ppVars, anVars, playlists>>

\* one turn of the loop of SpotifyWrappedFetcher.get_full_tracklist
FetchYear ==
    /\ pc = "fetching" /\ fetch.impl = "fetcher"
    /\ fetch.status = "running" /\ fetch.i <= Len(fetch.order)
    /\ fetch' = fetch_year(fetch)
    /\ UNCHANGED <<maVars, pc, idVars, ppVars, anVars, playlists>>

\* one turn of the loop of get_playlists.get_full_tracklist
LegacyFetchYear ==
    /\ pc = "fetching" /\ fetch.impl = "get_playlists"
    /\ fetch.status = "running" /\ fetch.i <= Len(fetch.order)
    /\ fetch' = legacy_fetch_year(fetch)
    /\ UNCHANGED <<maVars, pc, idVars, ppVars, anVars, playlists>>

\* return master_list, or the exception of a turn leaves the function
FetchEnd ==
    /\ pc = "fetching"
    /\ \/ fetch.status = "running" /\ fetch.i > Len(fetch.order)
          /\ fetch' = [fetch EXCEPT !.status = "returned"]
       \/ fetch.status \notin {"running", "returned"}
          /\ fetch' = fetch
    /\ pc' = "fetched"
    /\ UNCHANGED <<maVars, idVars, ppVars, anVars, playlists>>

NextFetch ==
    FetchCall \/ LegacyFetchCall \/ FetchYear \/ LegacyFetchYear \/ FetchEnd

SpecFetch == InitFetch /\ [][NextFetch]_vars

\* the records of the playlists that loaded: one for each track that is not
\* deleted, with the place of the track as its rank
LoadedRecords ==
    UNION {Range(playlist_records(playlists[i].year, playlists[i].load.items, 1)) :
              i \in {j \in DOMAIN playlists : playlists[j].load.ok}}

FailedYears == {playlists[i].year : i \in {j \in DOMAIN playlists : ~playlists[j].load.ok}}

\* the failure of a load neither ends the call nor leaves a record, and the
\* list returned holds each record of the loaded playlists once
SkipsFailedYears ==
    /\ fetch.status # "UnboundLocalError"
    /\ \A k \in DOMAIN fetch.master_list : fetch.master_list[k].year \notin FailedYears
    /\ fetch.status = "returned" =>
          /\ Range(fetch.master_list) = LoadedRecords
          /\ \A k, l \in DOMAIN fetch.master_list :
                fetch.master_list[k] = fetch.master_list[l] => k = l

\* C19: when loading the playlist of one year fails, get_full_tracklist adds
\* no record for that year and still fetches every remaining year, so that
\* the list returned holds exactly the records of the playlists that loaded.
C19_FailedYearSkipped ==
    (pc = "fetched" /\ FailedYears # {}) => SkipsFailedYears

\* the same for SpotifyWrappedFetcher.get_full_tracklist alone, where it holds
FetcherSkipsFailedYears ==
    (pc = "fetched" /\ fetch.impl = "fetcher" /\ FailedYears # {}) => SkipsFailedYears

\* the fetcher returned the records of 2018 and 2020 after the load of 2019
\* failed
FetcherSkipsFailedYearsWitness ==
    /\ pc = "fetched" /\ fetch.impl = "fetcher" /\ fetch.status = "returned"
    /\ FailedYears = {2019}
    /\ {fetch.master_list[k].year : k \in DOMAIN fetch.master_list} = {2018, 2020}

-----------------------------------------------------------------------------
(* preprocess on ranks around the rank whose points are 0.                 *)

\* the first place, the place that scores 0 and the place after it
HighRanks == {1, 101, 102}

HighRankRecords ==
    {[year |-> y, index |-> k, name |-> t.name, artists |-> t.artists, id |-> t.id] :
        y \in PpYears, k \in HighRanks, t \in {u \in Tracks : u.id \in {1, 3}}}

InitRank ==
    /\ pc = "loaded"
    /\ df \in UNION {[1..n -> HighRankRecords] : n \in 0..MaxRecords}
    /\ result = Unset /\ prev = Unset
    /\ IdIdle /\ AnIdle /\ FeIdle /\ MaIdle

SpecRank == InitRank /\ [][Next]_vars

\* C20: every row of the matrix that preprocess returns has score >= 0, for
\* any input whose ranks are 1-based positive integers.
C20_ScoreNotNegative ==
    Ok => \A i \in DOMAIN result.rows : result.rows[i].score >= 0

\* C20, amended: every row of the matrix that preprocess returns has
\* score >= 0, for any input whose ranks are integers from 1 to 101.
C20_ScoreNotNegativeUpTo101 ==
    (Ok /\ \A k \in DOMAIN df : df[k].index \in 1..101) =>
        \A i \in DOMAIN result.rows : result.rows[i].score >= 0

\* a song at rank 101 in its one year has score 0, beside a song at rank 1
C20_Witness ==
    /\ Ok /\ \A k \in DOMAIN df : df[k].index \in 1..101
    /\ \E i, j \in DOMAIN result.rows :
          /\ result.rows[i].score = 0 /\ result.rows[i].list_appearances = 1
          /\ result.rows[j].score = 100


\* the places in the input of the records of an identity
PlacesOf(sid) == {k \in DOMAIN df : create_song_id(df[k]) = sid}

\* the place of the record of an identity with the lowest year, the earliest
\* in the input among those of that year
LowestYearPlace(sid) ==
    CHOOSE k \in PlacesOf(sid) :
        \A j \in PlacesOf(sid) :
            df[k].year < df[j].year \/ (df[k].year = df[j].year /\ k <= j)

\* C21 (as claimed): the name, the artists and the external id of every row
\* of the matrix are those of the input record with the lowest year among
\* the records of its identity, the earliest in the input on a tie, for any
\* order of the input records.
C21_LowestYearRepresentative ==
    Ok => \A i \in DOMAIN result.rows :
            LET r == result.rows[i]
                rep == df[LowestYearPlace(r.song_id)]
            IN r.name = rep.name /\ r.artists = rep.artists /\ r.id = rep.id


\* the place at which an artist is first met in the matrix, reading the rows
\* in order and the artist list of each row in order
FirstMet(a, x) ==
    LET ex == exploded(a.rows)
        met == {j \in DOMAIN ex : ex[j].artists = Str(x)}
    IN CHOOSE j \in met : \A o \in met : j <= o

\* C22 (as claimed): the rows of most_popular_artists are in descending order
\* of track_count, and artists with the same track_count are in the order in
\* which they are first met in the matrix.
C22_TiesInFirstMetOrder ==
    (out # Unset /\ out.fn = "most_popular_artists") =>
        \A k, l \in DOMAIN out.rows :
            k < l =>
                /\ out.rows[k].track_count >= out.rows[l].track_count
                /\ out.rows[k].track_count = out.rows[l].track_count =>
                      FirstMet(adf, out.rows[k].artist) < FirstMet(adf, out.rows[l].artist)


\* C24 (as claimed): one_year_dream_runs, on_the_up and active_streaks, on a
\* matrix of two or more years, return a table and do not raise, an empty
\* table when no song qualifies.
C24_EmptyTableWhenNoneQualifies ==
    (/\ out # Unset
     /\ out.fn \in {"one_year_dream_runs", "on_the_up", "active_streaks"}
     /\ Len(adf.years) >= 2)
        => out.status = "ok"

-----------------------------------------------------------------------------
(* scripts/main.py: the runs of the orchestrator over list.csv and         *)
(* working.csv.                                                            *)

\* a file that does not exist, and a file with what it holds
Absent == [t |-> "absent"]
File(content) == [t |-> "file", v |-> content]

\* the texts that pd.read_csv reads as a missing value, among them the empty
\* cell and "NA"
NaTexts == {<<>>, <<78, 65>>, <<110, 97, 110>>}

\* a name written by csv.DictWriter and read back by pd.read_csv
read_csv_name(name) ==
    IF name.t = "str" /\ name.v \in NaTexts THEN NaN ELSE name

\* spotify_fetcher.py lines 117-125 and data_processor.py lines 37-43: the
\* records of a file written from master_list, as load_raw_data reads them;
\* str() of a list of names is read back by eval() as the same list
csv_records(master_list) ==
    [i \in DOMAIN master_list |->
        [year |-> master_list[i].year, index |-> master_list[i].index,
         name |-> read_csv_name(master_list[i].name),
         artists |-> master_list[i].artists, id |-> master_list[i].id]]

\* spotify_fetcher.py lines 62-98: get_full_tracklist, every turn of its loop
RECURSIVE fetch_loop(_)
fetch_loop(f) ==
    IF f.i > Len(f.order) THEN f.master_list ELSE fetch_loop(fetch_year(f))

get_full_tracklist(pl) == fetch_loop(fetch_start("fetcher", sorted_items(pl)))

\* the outcome of a step of a run: what it reported, whether it got past its
\* skip test, and the file it leaves
StepOutcome(ok, ran, file) == [ok |-> ok, ran |-> ran, file |-> file]

\* spotify_fetcher.py lines 112-130: save_tracklist_to_csv; an empty list
\* writes nothing, a file that cannot be opened raises IOError
save_tracklist_to_csv(master_list, file, writable) ==
    IF master_list = <<>> THEN StepOutcome(TRUE, TRUE, file)
    ELSE IF ~writable THEN StepOutcome(FALSE, TRUE, file)
    ELSE StepOutcome(TRUE, TRUE, File(csv_records(master_list)))

\* a plausible slip: the test of line 56 left out, so that every run fetches
fetch_playlists_always(env, file, force) ==
    IF ~env.credentials THEN StepOutcome(FALSE, TRUE, file)
    ELSE IF env.playlist_ids = <<>> THEN StepOutcome(FALSE, TRUE, file)
    ELSE save_tracklist_to_csv(get_full_tracklist(env.playlist_ids), file, env.writable)

\* main.py lines 56-81: fetch_playlists
fetch_playlists(env, file, force) ==
    IF file # Absent /\ ~force THEN StepOutcome(TRUE, FALSE, file)
    ELSE IF ~env.credentials THEN StepOutcome(FALSE, TRUE, file)
    ELSE IF env.playlist_ids = <<>> THEN StepOutcome(FALSE, TRUE, file)
    ELSE save_tracklist_to_csv(get_full_tracklist(env.playlist_ids), file, env.writable)

\* a plausible slip: success reported when list.csv is missing
process_data_no_raw_test(env, raw, file, force) ==
    IF file # Absent /\ ~force THEN StepOutcome(TRUE, FALSE, file)
    ELSE IF raw = Absent THEN StepOutcome(TRUE, TRUE, file)
    ELSE IF preprocess(raw.v).status # "ok" THEN StepOutcome(FALSE, TRUE, file)
    ELSE IF ~env.writable THEN StepOutcome(FALSE, TRUE, file)
    ELSE StepOutcome(TRUE, TRUE, File(preprocess(raw.v)))

\* main.py lines 94-117: process_data; an exception of preprocess or of
\* to_csv is caught and reported as a failure
process_data(env, raw, file, force) ==
    IF file # Absent /\ ~force THEN StepOutcome(TRUE, FALSE, file)
    ELSE IF raw = Absent THEN StepOutcome(FALSE, TRUE, file)
    ELSE IF preprocess(raw.v).status # "ok" THEN StepOutcome(FALSE, TRUE, file)
    ELSE IF ~env.writable THEN StepOutcome(FALSE, TRUE, file)
    ELSE StepOutcome(TRUE, TRUE, File(preprocess(raw.v)))

\* what sp.playlist gives for a year of a run: a failure, or a playlist of
\* one or two tracks
MainLoads ==
    {[ok |-> FALSE, items |-> <<>>],
     [ok |-> TRUE, items |-> <<FeTrackAt(1)>>],
     [ok |-> TRUE, items |-> <<FeTrackAt(1), FeTrackAt(2)>>]}

\* PLAYLIST_IDS with what Spotify holds for its playlists at the time of a
\* run: no playlist at all, or the playlists of 2018 and 2019
MainPlaylists ==
    {<<>>} \cup {<<[year |-> 2018, load |-> a], [year |-> 2019, load |-> b]>> :
                    a \in MainLoads, b \in MainLoads}

\* the environment of a run: the credentials are set or not, the playlists,
\* the data directory can be written or not
MainEnvs ==
    [credentials : BOOLEAN, playlist_ids : MainPlaylists, writable : BOOLEAN]

\* a list.csv put in place by hand, whose only record has no artists cell
HandMadeList ==
    <<[year |-> 2018, index |-> 1, name |-> Str(<<98>>), artists |-> NaN, id |-> 4]>>

InitMain ==
    /\ pc = "shell"
    /\ list_csv \in {Absent, File(HandMadeList)}
    /\ working_csv = Absent
    /\ run = None
    /\ IdIdle /\ PpIdle /\ AnIdle /\ FeIdle

\* main.py lines 149-156: python scripts/main.py --process [--force]
RunProcess ==
    /\ pc = "shell"
    /\ \E env \in MainEnvs : \E force \in BOOLEAN :
          LET f == fetch_playlists(env, list_csv, force)
              p == IF f.ok THEN process_data(env, f.file, working_csv, force)
                   ELSE StepOutcome(FALSE, FALSE, working_csv)
          IN /\ list_csv' = f.file
             /\ working_csv' = p.file
             /\ run' = [process |-> TRUE, force |-> force,
                        had_list |-> list_csv # Absent,
                        had_working |-> working_csv # Absent,
                        fetch_ok |-> f.ok, fetch_ran |-> f.ran,
                        process_called |-> f.ok, process_ok |-> p.ok,
                        process_ran |-> p.ran,
                        exit |-> IF f.ok /\ p.ok THEN 0 ELSE 1]
    /\ UNCHANGED <<pc, idVars, ppVars, anVars, feVars>>

\* main.py lines 159-163: python scripts/main.py --fetch [--force]
RunFetch ==
    /\ pc = "shell"
    /\ \E env \in MainEnvs : \E force \in BOOLEAN :
          LET f == fetch_playlists(env, list_csv, force)
          IN /\ list_csv' = f.file
             /\ working_csv' = working_csv
             /\ run' = [process |-> FALSE, force |-> force,
                        had_list |-> list_csv # Absent,
                        had_working |-> working_csv # Absent,
                        fetch_ok |-> f.ok, fetch_ran |-> f.ran,
                        process_called |-> FALSE, process_ok |-> FALSE,
                        process_ran |-> FALSE,
                        exit |-> IF f.ok THEN 0 ELSE 1]
    /\ UNCHANGED <<pc, idVars, ppVars, anVars, feVars>>

NextMain == RunProcess \/ RunFetch

SpecMain == InitMain /\ [][NextMain]_vars


\* C23: without --force a run of the orchestrator never rewrites a list.csv
\* or a working.csv that exists: fetch_playlists is skipped when list.csv
\* exists and process_data is skipped when working.csv exists, both report
\* success and leave the file as it is; with --process the processing step
\* runs only after the fetch step has reported success.
C23_NoRewriteWithoutForce ==
    [][/\ (~run'.force /\ list_csv # Absent) =>
             /\ list_csv' = list_csv
             /\ run'.fetch_ok /\ ~run'.fetch_ran
       /\ (~run'.force /\ working_csv # Absent) =>
             /\ working_csv' = working_csv
             /\ run'.process_called => (run'.process_ok /\ ~run'.process_ran)
       /\ run'.process_called => (run'.process /\ run'.fetch_ok)
       /\ run'.process_ran => run'.process_called]_vars

\* a run of --process without --force found both files, skipped both steps
\* and left the files, while Spotify had other playlists by then
C23_Witness ==
    /\ run # None /\ run.process /\ ~run.force
    /\ run.had_list /\ run.had_working
    /\ ~run.fetch_ran /\ ~run.process_ran /\ run.exit = 0
    /\ list_csv # Absent /\ working_csv # Absent

\* C26 (as claimed): after any sequence of runs, whenever a --process run
\* exits successfully, working.csv exists and is the preprocessing of the
\* list.csv present at that moment.
C26_WorkingIsProcessedList ==
    (run # None /\ run.process /\ run.exit = 0) =>
        /\ working_csv # Absent /\ list_csv # Absent
        /\ working_csv = File(preprocess(list_csv.v))

\* C26, amended: whenever a --process run exits successfully, working.csv
\* exists; when the run was given --force or found no working.csv, list.csv
\* exists too and working.csv is the preprocessing of the list.csv present
\* at that moment.
C26_WorkingIsProcessedListWhenWritten ==
    (run # None /\ run.process /\ run.exit = 0) =>
        /\ working_csv # Absent
        /\ (run.force \/ ~run.had_working) =>
              /\ list_csv # Absent
              /\ working_csv = File(preprocess(list_csv.v))

\* a forced run of --process replaced a working.csv by the preprocessing of
\* the list.csv that it fetched
C26_Witness ==
    /\ run # None /\ run.process /\ run.force /\ run.exit = 0
    /\ run.had_working /\ run.fetch_ran /\ run.process_ran
    /\ list_csv # Absent /\ Len(list_csv.v) = 3
    /\ working_csv = File(preprocess(list_csv.v))

-----------------------------------------------------------------------------
(* The identity normalizer over the rows of a frame: df.apply calls        *)
(* create_song_id on one row after the other.                              *)

\* "a", "a x", "A" and an empty name cell
PairNames == {Str(<<97>>), Str(<<97, 32, 120>>), Str(<<65>>), NaN}

\* ["x", "y"], ["Y", "x"], ["x y"], ["y"], ["x"]
PairArtists ==
    {List(<< <<120>>, <<121>> >>), List(<< <<89>>, <<120>> >>),
     List(<< <<120, 32, 121>> >>), List(<< <<121>> >>), List(<< <<120>> >>)}

InitPair ==
    /\ pc = "rows"
    /\ row \in [name : PairNames, artists : PairArtists]
    /\ song_id = Unset /\ first_id = Unset
    /\ last_row = Unset /\ first_row = Unset
    /\ PpIdle /\ AnIdle /\ FeIdle /\ MaIdle

\* line 113: create_song_id is applied to the row at hand
ApplyCreateSongId ==
    /\ pc = "rows"
    /\ song_id' = create_song_id(row)
    /\ last_row' = row
    /\ first_id' = IF first_id = Unset THEN create_song_id(row) ELSE first_id
    /\ first_row' = IF first_id = Unset THEN row ELSE first_row
    /\ UNCHANGED <<pc, row, ppVars, anVars, feVars, maVars>>

\* line 113: apply moves on to another row of the frame
NextRow ==
    /\ pc = "rows"
    /\ last_row = row
    /\ row' \in [name : PairNames, artists : PairArtists]
    /\ UNCHANGED <<pc, song_id, first_id, last_row, first_row, ppVars, anVars, feVars, maVars>>

NextPair == ApplyCreateSongId \/ NextRow

SpecPair == InitPair /\ [][NextPair]_vars

\* how many times a text is in a list of texts
CountIn(x, l) == Cardinality({i \in DOMAIN l : l[i] = x})

\* the lowercased artist names of a record
LoweredArtists(r) == [i \in DOMAIN r.artists.v |-> Lower(r.artists.v[i])]

\* C25 (as claimed): two records get the same song_id only if their
\* lowercased names are equal and their lowercased artist names are equal as
\* multisets.
C25_SameIdSameSong ==
    (song_id # Unset /\ song_id # None /\ song_id = first_id) =>
        /\ Lower(PyStr(last_row.name)) = Lower(PyStr(first_row.name))
        /\ \A x \in Range(LoweredArtists(last_row)) \cup Range(LoweredArtists(first_row)) :
              CountIn(x, LoweredArtists(last_row)) = CountIn(x, LoweredArtists(first_row))

=============================================================================
